---- MODULE Spec2Model ----
(***************************************************************************)
(* Model of the request pipeline of the resume optimizer backend           *)
(* (src/server.js) and of the Submission schema (src/resumeModel.js).      *)
(*                                                                         *)
(* One request is followed from its arrival to its response:               *)
(*   idle -> (400 | calling) -> (500 | extracting) -> (400 | 500 | saving) *)
(*        -> done                                                          *)
(*                                                                         *)
(* JavaScript values are records [type |-> ...]; a string is a sequence of *)
(* pieces.  The texts the handlers look into (resumeText, jobDescription,  *)
(* prompt) are sequences of one-character pieces, so that trim(), length   *)
(* and replace() are computed character by character.  Messages are        *)
(* sequences of coarser pieces (the piece "API key" is what                *)
(* includes('API key') looks for).  Request fields are strings or absent,  *)
(* as the interface declares them.                                         *)
(***************************************************************************)
EXTENDS Integers, Sequences, FiniteSets, TLC

VARIABLES
  AI_PROVIDER,   \* the configured provider, fixed at start
  pc,            \* where the handler is: idle, calling, extracting, saving, done
  endpoint,      \* analyze or match
  req,           \* the request: its body and context
  userPrompt,    \* the rendered prompt
  sent,          \* the requests sent to the provider
  providerError, \* the error the provider call failed with
  aiResponse,    \* what callAI returned
  data,          \* analysisData or matchData, once extraction passed
  callAICalls,   \* the number of calls of callAI
  saveAttempts,  \* the number of calls of submission.save()
  records,       \* the Submission collection
  responses      \* the responses emitted

vars == <<AI_PROVIDER, pc, endpoint, req, userPrompt, sent, providerError,
          aiResponse, data, callAICalls, saveAttempts, records, responses>>

----------------------------------------------------------------------------
(* Bounds of the model *)

\* longest free-form provider reply, in tokens
MaxReplyLen == 3
\* most members of a JSON object in a provider reply
MaxFields == 2
\* most prose tokens before and after the JSON object of a provider reply
MaxProse == 1
\* most chunks (literal text or marker) of a prompt template
MaxChunks == 3

(* Program constants *)

\* minimum number of characters of a trimmed text
MinTrimmedLength == 50

----------------------------------------------------------------------------
(* JavaScript values *)

Undefined == [type |-> "undefined"]
Null == [type |-> "null"]
Str(s) == [type |-> "string", s |-> s]
Num(n) == [type |-> "number", n |-> n]

\* ToBoolean: what `!x` and `x || y` test
Truthy(x) ==
  CASE x.type \in {"undefined", "null"} -> FALSE
    [] x.type = "string" -> x.s # <<>>
    [] x.type = "number" -> x.n # 0

\* x || y
OrElse(x, y) == IF Truthy(x) THEN x ELSE y

Rep(c, n) == [i \in 1..n |-> c]

Min(S) == CHOOSE m \in S : \A k \in S : m <= k
Max(S) == CHOOSE m \in S : \A k \in S : m >= k

IsWhiteSpace(c) == c \in {" ", "\n", "\t"}

\* a handler that measures the text as sent, white space included
TrimNothing(s) == s

\* String.prototype.trim
Trim(s) ==
  LET black == {i \in 1..Len(s) : ~IsWhiteSpace(s[i])}
  IN IF black = {} THEN <<>> ELSE SubSeq(s, Min(black), Max(black))

\* position of the first occurrence of pat in s, 0 when there is none
IndexOf(s, pat) ==
  LET at == {i \in 1..(Len(s) - Len(pat) + 1) : SubSeq(s, i, i + Len(pat) - 1) = pat}
  IN IF at = {} THEN 0 ELSE Min(at)

Includes(s, pat) == IndexOf(s, pat) # 0

\* GetSubstitution of String.prototype.replace with a string pattern:
\* in the replacement text $$ is $, $& the matched text, $` the text before
\* the match and $' the text after it; any other $ is literal
RECURSIVE GetSubstitution(_, _, _, _, _)
GetSubstitution(matched, str, position, replacement, i) ==
  IF i > Len(replacement) THEN <<>>
  ELSE IF replacement[i] = "$" /\ i < Len(replacement)
            /\ replacement[i + 1] \in {"$", "&", "`", "'"}
       THEN (CASE replacement[i + 1] = "$" -> <<"$">>
               [] replacement[i + 1] = "&" -> matched
               [] replacement[i + 1] = "`" -> SubSeq(str, 1, position - 1)
               [] replacement[i + 1] = "'" ->
                    SubSeq(str, position + Len(matched), Len(str)))
            \o GetSubstitution(matched, str, position, replacement, i + 2)
       ELSE <<replacement[i]>>
            \o GetSubstitution(matched, str, position, replacement, i + 1)

\* String.prototype.replace(pattern, replacement) with a string pattern:
\* the first occurrence only
StringReplace(str, pattern, replacement) ==
  LET position == IndexOf(str, pattern)
  IN IF position = 0 THEN str
     ELSE SubSeq(str, 1, position - 1)
          \o GetSubstitution(pattern, str, position, replacement, 1)
          \o SubSeq(str, position + Len(pattern), Len(str))

DOCUMENT_TEXT ==
  <<"{","{","D","O","C","U","M","E","N","T","_","T","E","X","T","}","}">>
RESUME_TEXT ==
  <<"{","{","R","E","S","U","M","E","_","T","E","X","T","}","}">>
JOB_DESCRIPTION ==
  <<"{","{","J","O","B","_","D","E","S","C","R","I","P","T","I","O","N","}","}">>

----------------------------------------------------------------------------
(* The Submission schema *)

FileTypeEnum == {Str(<<"pdf">>), Str(<<"docx">>)}
AnalysisTypeEnum == {Str(<<"analyzer">>), Str(<<"matcher">>)}

\* what mongoose's validation before save accepts
SubmissionValid(doc) ==
  /\ Truthy(doc.fileName)
  /\ doc.fileType \in FileTypeEnum
  /\ doc.fileSize.type = "number"
  /\ doc.analysisType \in AnalysisTypeEnum
  /\ Truthy(doc.resumeText)
  /\ doc.resumeTextLength.type = "number"

----------------------------------------------------------------------------
(* The provider's replies: sequences of tokens. A token is a brace, a     *)
(* comma, a character of prose, or one member "key": value of an object.  *)

LBrace == [t |-> "{"]
RBrace == [t |-> "}"]
Comma == [t |-> ","]
Prose == [t |-> "x"]
Member(k, v) == [t |-> "member", k |-> k, v |-> v]

\* a pattern anchored at both ends, /^\{[\s\S]*\}$/: prose around the object
\* makes it miss
RegexMatchAnchored(text) ==
  IF text # <<>> /\ text[1] = LBrace /\ text[Len(text)] = RBrace
  THEN Str(text) ELSE Null

\* aiResponse.match(/\{[\s\S]*\}/): the span from the first { to the last },
\* null when no } follows a {
RegexMatch(text) ==
  LET open == {i \in 1..Len(text) : text[i] = LBrace}
      close == {i \in 1..Len(text) : text[i] = RBrace}
  IN IF open = {} \/ close = {} \/ Max(close) < Min(open) THEN Null
     ELSE Str(SubSeq(text, Min(open), Max(close)))

\* the object of a member list; of two members with one key the later wins
RECURSIVE ObjectOf(_)
ObjectOf(members) ==
  IF members = <<>> THEN <<>>
  ELSE LET m == members[Len(members)]
       IN (m.k :> m.v) @@ ObjectOf(SubSeq(members, 1, Len(members) - 1))

\* JSON.parse of a span { ... }: members separated by commas; anything else
\* (prose, a stray brace, a missing or trailing comma) is a SyntaxError
JSONParse(span) ==
  LET inner == SubSeq(span, 2, Len(span) - 1)
      wellFormed ==
        \/ inner = <<>>
        \/ /\ Len(inner) % 2 = 1
           /\ \A i \in 1..Len(inner) :
                inner[i].t = (IF i % 2 = 1 THEN "member" ELSE ",")
  IN IF wellFormed
     THEN [ok |-> TRUE,
           value |-> ObjectOf([j \in 1..((Len(inner) + 1) \div 2) |-> inner[2 * j - 1]])]
     ELSE [ok |-> FALSE, message |-> Str(<<"Unexpected token in JSON">>)]

\* obj.key: undefined when the object has no such property
Get(obj, k) == IF k \in DOMAIN obj THEN obj[k] ELSE Undefined

----------------------------------------------------------------------------
(* callAI *)

OpenAICompatible == {"openai", "openrouter"}
Providers == OpenAICompatible \cup {"gemini"}

AnalyzeSystemPrompt ==
  <<"You are an expert resume reviewer and ATS specialist. Always respond with valid JSON only, no additional text.">>
MatchSystemPrompt ==
  <<"You are an expert recruiter and ATS system analyzer. Always respond with valid JSON only, no additional text.">>

\* the request callAI sends to the configured provider; none when AI_PROVIDER
\* names no provider
ProviderRequests(provider, systemPrompt, prompt) ==
  IF provider \in OpenAICompatible
  THEN <<[model |-> IF provider = "openrouter"
                    THEN "google/gemini-flash-1.5" ELSE "gpt-4o",
          messages |-> <<[role |-> "system", content |-> systemPrompt],
                         [role |-> "user", content |-> prompt]>>]>>
  ELSE IF provider = "gemini"
  THEN <<[model |-> "gemini-2.0-flash-exp",
          fullPrompt |-> systemPrompt \o <<"\n", "\n">> \o prompt]>>
  ELSE <<>>

\* a catch block that rethrows whatever it caught
callAICatchRethrow(error) == error

\* the catch block of callAI: what it throws for the error it caught
callAICatch(error) ==
  IF Truthy(error.message) /\ Includes(error.message.s, <<"API key">>)
  THEN [message |-> Str(<<"Invalid API key. Please check your .env file.">>)]
  ELSE error

\* the errors a provider call fails with
ProviderErrors ==
  {[message |-> Str(<<"Incorrect ", "API key", " provided">>)],
   [message |-> Str(<<"429 Rate limit exceeded">>)],
   [message |-> Str(<<"fetch failed">>)]}

InvalidProviderError == [message |-> Str(<<"Invalid AI provider specified">>)]

----------------------------------------------------------------------------
(* Responses *)

\* res.status(status).json({ success: false, error })
Failure(status, error) ==
  [status |-> status, json |-> [success |-> FALSE, error |-> error]]

\* res.json({ success: true, data })
Success(d) == [status |-> 200, json |-> [success |-> TRUE, data |-> d]]

AnalyzeFallback == Str(<<"Failed to analyze resume. Please try again.">>)
MatchFallback == Str(<<"Failed to match resume with job. Please try again.">>)

\* the catch block of the /analyze-resume handler
AnalyzeCatch(error) == Failure(500, OrElse(error.message, AnalyzeFallback))

\* the catch block of the /match-job handler
MatchCatch(error) == Failure(500, OrElse(error.message, MatchFallback))

----------------------------------------------------------------------------
(* /analyze-resume *)

\* the checks before the provider call: the rejection, or Null when the
\* request passes
AnalyzeValidate(b) ==
  IF ~Truthy(b.resumeText) \/ ~Truthy(b.prompt)
  THEN Failure(400, Str(<<"Missing resumeText or prompt in request body">>))
  ELSE IF Len(Trim(b.resumeText.s)) < MinTrimmedLength
  THEN Failure(400, Str(<<"Resume text is too short (minimum 50 characters)">>))
  ELSE Null

AnalyzePrompt(b) == StringReplace(b.prompt.s, DOCUMENT_TEXT, b.resumeText.s)

\* from the provider's reply to the decision of the handler: a thrown error,
\* a response, or the data to save and return
AnalyzeExtraction(reply) ==
  IF reply = Null
  THEN [kind |-> "throw",
        error |-> [message |-> Str(<<"Cannot read properties of null (reading 'match')">>)]]
  ELSE LET jsonMatch == RegexMatch(reply.s) IN
  IF jsonMatch = Null
  THEN [kind |-> "throw",
        error |-> [message |-> Str(<<"No valid JSON found in AI response">>)]]
  ELSE LET parsed == JSONParse(jsonMatch.s) IN
  IF ~parsed.ok
  THEN [kind |-> "throw", error |-> [message |-> parsed.message]]
  ELSE LET analysisData == parsed.value IN
  IF ~Truthy(Get(analysisData, "overallScore")) /\ ~Truthy(Get(analysisData, "error"))
  THEN [kind |-> "throw",
        error |-> [message |-> Str(<<"Invalid analysis format from AI">>)]]
  ELSE IF Truthy(Get(analysisData, "error"))
  THEN [kind |-> "respond", response |-> Failure(400, Get(analysisData, "error"))]
  ELSE [kind |-> "save", data |-> analysisData]

\* new Submission({...}) of the analyzer
AnalyzeSubmission(r, analysisData) ==
  [fileName |-> OrElse(r.body.fileName, Str(<<"unknown.pdf">>)),
   fileType |-> OrElse(r.body.fileType, Str(<<"pdf">>)),
   fileSize |-> OrElse(r.body.fileSize, Num(0)),
   analysisType |-> Str(<<"analyzer">>),
   resumeText |-> r.body.resumeText,
   resumeTextLength |-> Num(Len(r.body.resumeText.s)),
   jobDescription |-> Null,
   analyzerResults |-> analysisData,
   ipAddress |-> OrElse(r.ip, Str(<<"unknown">>)),
   userAgent |-> OrElse(r.userAgent, Str(<<"unknown">>))]

----------------------------------------------------------------------------
(* /match-job *)

\* a handler that forgets the length check of the job description
MatchValidateNoJobCheck(b) ==
  IF ~Truthy(b.resumeText) \/ ~Truthy(b.jobDescription) \/ ~Truthy(b.prompt)
  THEN Failure(400, Str(<<"Missing required fields: resumeText, jobDescription, or prompt">>))
  ELSE IF Len(Trim(b.resumeText.s)) < MinTrimmedLength
  THEN Failure(400, Str(<<"Resume text is too short">>))
  ELSE Null

\* the checks before the provider call: the rejection, or Null when the
\* request passes
MatchValidate(b) ==
  IF ~Truthy(b.resumeText) \/ ~Truthy(b.jobDescription) \/ ~Truthy(b.prompt)
  THEN Failure(400, Str(<<"Missing required fields: resumeText, jobDescription, or prompt">>))
  ELSE IF Len(Trim(b.resumeText.s)) < MinTrimmedLength
  THEN Failure(400, Str(<<"Resume text is too short">>))
  ELSE IF Len(Trim(b.jobDescription.s)) < MinTrimmedLength
  THEN Failure(400, Str(<<"Job description is too short">>))
  ELSE Null

MatchPrompt(b) ==
  StringReplace(StringReplace(b.prompt.s, RESUME_TEXT, b.resumeText.s),
                JOB_DESCRIPTION, b.jobDescription.s)

MatchExtraction(reply) ==
  IF reply = Null
  THEN [kind |-> "throw",
        error |-> [message |-> Str(<<"Cannot read properties of null (reading 'match')">>)]]
  ELSE LET jsonMatch == RegexMatch(reply.s) IN
  IF jsonMatch = Null
  THEN [kind |-> "throw",
        error |-> [message |-> Str(<<"No valid JSON found in AI response">>)]]
  ELSE LET parsed == JSONParse(jsonMatch.s) IN
  IF ~parsed.ok
  THEN [kind |-> "throw", error |-> [message |-> parsed.message]]
  ELSE LET matchData == parsed.value IN
  IF ~Truthy(Get(matchData, "matchPercentage"))
  THEN [kind |-> "throw",
        error |-> [message |-> Str(<<"Invalid match format from AI">>)]]
  ELSE [kind |-> "save", data |-> matchData]

\* a matcher submission that kept the analyzer's analysisType
MatchSubmissionAsAnalyzer(r, matchData) ==
  [fileName |-> OrElse(r.body.fileName, Str(<<"unknown.pdf">>)),
   fileType |-> OrElse(r.body.fileType, Str(<<"pdf">>)),
   fileSize |-> OrElse(r.body.fileSize, Num(0)),
   analysisType |-> Str(<<"analyzer">>),
   resumeText |-> r.body.resumeText,
   resumeTextLength |-> Num(Len(r.body.resumeText.s)),
   jobDescription |-> r.body.jobDescription,
   matcherResults |-> matchData,
   ipAddress |-> OrElse(r.ip, Str(<<"unknown">>)),
   userAgent |-> OrElse(r.userAgent, Str(<<"unknown">>))]

\* new Submission({...}) of the matcher
MatchSubmission(r, matchData) ==
  [fileName |-> OrElse(r.body.fileName, Str(<<"unknown.pdf">>)),
   fileType |-> OrElse(r.body.fileType, Str(<<"pdf">>)),
   fileSize |-> OrElse(r.body.fileSize, Num(0)),
   analysisType |-> Str(<<"matcher">>),
   resumeText |-> r.body.resumeText,
   resumeTextLength |-> Num(Len(r.body.resumeText.s)),
   jobDescription |-> r.body.jobDescription,
   matcherResults |-> matchData,
   ipAddress |-> OrElse(r.ip, Str(<<"unknown">>)),
   userAgent |-> OrElse(r.userAgent, Str(<<"unknown">>))]

----------------------------------------------------------------------------
(* The inputs: request bodies and provider replies *)

Seqs(S, n) == UNION {[1..k -> S] : k \in 0..n}

RECURSIVE Flatten(_)
Flatten(ss) == IF ss = <<>> THEN <<>> ELSE Head(ss) \o Flatten(Tail(ss))

\* a text of exactly the minimum length, one a character short of it (alone
\* and between white space, so that only trimming makes it short), and texts
\* that hold a marker or a replacement pattern
ValidText(c) == Rep(c, MinTrimmedLength)
PaddedText(c) == <<" ">> \o Rep(c, MinTrimmedLength) \o <<"\n">>
ShortText(c) == <<" ">> \o Rep(c, MinTrimmedLength - 1) \o <<"\n">>
BlankText == Rep(" ", MinTrimmedLength)
MarkerText(c) == JOB_DESCRIPTION \o Rep(c, MinTrimmedLength)
DollarText(c) == <<"$", "&">> \o Rep(c, MinTrimmedLength)

ResumeTexts ==
  {Undefined, Str(<<>>), Str(ShortText("a")), Str(BlankText),
   Str(ValidText("a")), Str(PaddedText("a"))}
JobDescriptions ==
  {Undefined, Str(<<>>), Str(ShortText("b")), Str(ValidText("b"))}

Literal == <<"R", "e", "a", "d", " ">>
AnalyzeTemplate == Literal \o DOCUMENT_TEXT
MatchTemplate == Literal \o RESUME_TEXT \o <<" ">> \o JOB_DESCRIPTION

\* file metadata and request context: absent, a pdf, a file type outside the
\* schema's enumeration
Metadata ==
  {[fileName |-> Undefined, fileType |-> Undefined, fileSize |-> Undefined,
    ip |-> Undefined, userAgent |-> Undefined],
   [fileName |-> Str(<<"cv.pdf">>), fileType |-> Str(<<"pdf">>), fileSize |-> Num(1024),
    ip |-> Str(<<"127.0.0.1">>), userAgent |-> Str(<<"curl">>)],
   [fileName |-> Str(<<"cv.txt">>), fileType |-> Str(<<"txt">>), fileSize |-> Num(0),
    ip |-> Str(<<"127.0.0.1">>), userAgent |-> Undefined]}

Request(resumeText, jobDescription, prompt, m) ==
  [body |-> [resumeText |-> resumeText, jobDescription |-> jobDescription,
             prompt |-> prompt, fileName |-> m.fileName,
             fileType |-> m.fileType, fileSize |-> m.fileSize],
   ip |-> m.ip, userAgent |-> m.userAgent]

AnalyzeRequests ==
  {Request(r, Undefined, p, m) :
     r \in ResumeTexts, p \in {Undefined, Str(AnalyzeTemplate)}, m \in Metadata}

MatchRequests ==
  {Request(r, j, p, m) :
     r \in ResumeTexts, j \in JobDescriptions,
     p \in {Undefined, Str(MatchTemplate)}, m \in Metadata}

\* prompt templates of up to MaxChunks chunks, for the rendering specification
Chunks == {Literal, DOCUMENT_TEXT, RESUME_TEXT, JOB_DESCRIPTION}
Templates == {Flatten(cs) : cs \in Seqs(Chunks, MaxChunks)}

NoMetadata == CHOOSE m \in Metadata : m.fileName = Undefined

RenderAnalyzeRequests ==
  {Request(r, Undefined, Str(t), NoMetadata) :
     r \in {Str(ShortText("a")), Str(ValidText("a")), Str(MarkerText("a")),
            Str(DollarText("a"))},
     t \in Templates}

RenderMatchRequests ==
  {Request(r, j, Str(t), NoMetadata) :
     r \in {Str(ValidText("a")), Str(MarkerText("a")), Str(DollarText("a"))},
     j \in {Str(ShortText("b")), Str(ValidText("b"))},
     t \in Templates}

Members ==
  {Member("overallScore", Num(82)), Member("overallScore", Num(0)),
   Member("matchPercentage", Num(75)), Member("matchPercentage", Num(0)),
   Member("error", Str(<<"Document is not a resume">>)), Member("error", Str(<<>>))}

\* { m1 , m2 , ... }
ObjectText(ms) ==
  <<LBrace>>
  \o [i \in 1..(IF ms = <<>> THEN 0 ELSE 2 * Len(ms) - 1) |->
        IF i % 2 = 1 THEN ms[(i + 1) \div 2] ELSE Comma]
  \o <<RBrace>>

\* every token sequence of up to MaxReplyLen braces, commas, prose and
\* members, and every object of up to MaxFields members inside prose
FreeTokens == {LBrace, RBrace, Comma, Prose, Member("overallScore", Num(82))}
Replies ==
  Seqs(FreeTokens, MaxReplyLen)
  \cup {Rep(Prose, n) \o ObjectText(ms) \o Rep(Prose, n) :
          n \in 0..MaxProse, ms \in Seqs(Members, MaxFields)}

----------------------------------------------------------------------------
(* The state machine *)

Init ==
  /\ AI_PROVIDER \in Providers \cup {"none"}
  /\ pc = "idle"
  /\ endpoint = "none"
  /\ req = Undefined
  /\ userPrompt = <<>>
  /\ sent = <<>>
  /\ providerError = Undefined
  /\ aiResponse = Undefined
  /\ data = Undefined
  /\ callAICalls = 0
  /\ saveAttempts = 0
  /\ records = <<>>
  /\ responses = <<>>

\* await callAI(systemPrompt, prompt): the call is made and the handler waits
callAI(systemPrompt, prompt) ==
  /\ callAICalls' = callAICalls + 1
  /\ sent' = sent \o ProviderRequests(AI_PROVIDER, systemPrompt, prompt)
  /\ userPrompt' = prompt
  /\ pc' = "calling"
  /\ UNCHANGED <<responses>>

\* the handler answers and ends
Respond(response) ==
  /\ responses' = Append(responses, response)
  /\ pc' = "done"

\* POST /analyze-resume, up to the provider call
AnalyzeRequestOf(r) ==
  /\ pc = "idle"
  /\ endpoint' = "analyze"
  /\ req' = r
  /\ IF AnalyzeValidate(r.body) # Null
     THEN /\ Respond(AnalyzeValidate(r.body))
          /\ UNCHANGED <<userPrompt, sent, callAICalls>>
     ELSE callAI(AnalyzeSystemPrompt, AnalyzePrompt(r.body))
  /\ UNCHANGED <<AI_PROVIDER, providerError, aiResponse, data, saveAttempts, records>>

\* POST /match-job, up to the provider call
MatchRequestOf(r) ==
  /\ pc = "idle"
  /\ endpoint' = "match"
  /\ req' = r
  /\ IF MatchValidate(r.body) # Null
     THEN /\ Respond(MatchValidate(r.body))
          /\ UNCHANGED <<userPrompt, sent, callAICalls>>
     ELSE callAI(MatchSystemPrompt, MatchPrompt(r.body))
  /\ UNCHANGED <<AI_PROVIDER, providerError, aiResponse, data, saveAttempts, records>>

AnalyzeRequest == \E r \in AnalyzeRequests : AnalyzeRequestOf(r)
MatchRequest == \E r \in MatchRequests : MatchRequestOf(r)

\* the handler's catch block answers for the error thrown in it
HandlerCatch(error) ==
  Respond(IF endpoint = "analyze" THEN AnalyzeCatch(error) ELSE MatchCatch(error))

\* the provider answers: callAI returns the text of the reply (the content of
\* an OpenAI-compatible completion may be null)
ProviderResolve ==
  /\ pc = "calling"
  /\ AI_PROVIDER \in Providers
  /\ \E text \in {Str(t) : t \in Replies}
                 \cup (IF AI_PROVIDER \in OpenAICompatible THEN {Null} ELSE {}) :
       aiResponse' = text
  /\ pc' = "extracting"
  /\ UNCHANGED <<AI_PROVIDER, endpoint, req, userPrompt, sent, providerError,
                 data, callAICalls, saveAttempts, records, responses>>

\* the provider call fails: callAI rethrows and the handler answers 500
ProviderReject ==
  /\ pc = "calling"
  /\ AI_PROVIDER \in Providers
  /\ \E error \in ProviderErrors :
       /\ providerError' = error
       /\ HandlerCatch(callAICatch(error))
  /\ UNCHANGED <<AI_PROVIDER, endpoint, req, userPrompt, sent, aiResponse,
                 data, callAICalls, saveAttempts, records>>

\* AI_PROVIDER names no provider: callAI throws without calling any
InvalidProvider ==
  /\ pc = "calling"
  /\ AI_PROVIDER \notin Providers
  /\ providerError' = InvalidProviderError
  /\ HandlerCatch(callAICatch(InvalidProviderError))
  /\ UNCHANGED <<AI_PROVIDER, endpoint, req, userPrompt, sent, aiResponse,
                 data, callAICalls, saveAttempts, records>>

\* what the handler does with the decision of its extraction: answer 500,
\* answer the response, or build the submission and call save()
Decide(decision) ==
  /\ IF decision.kind = "throw"
     THEN HandlerCatch(decision.error) /\ UNCHANGED <<data, saveAttempts>>
     ELSE IF decision.kind = "respond"
     THEN Respond(decision.response) /\ UNCHANGED <<data, saveAttempts>>
     ELSE /\ data' = decision.data
          /\ saveAttempts' = saveAttempts + 1
          /\ pc' = "saving"
          /\ UNCHANGED responses
  /\ UNCHANGED <<AI_PROVIDER, endpoint, req, userPrompt, sent, providerError,
                 aiResponse, callAICalls, records>>

\* /analyze-resume after the provider's reply, up to submission.save()
AnalyzeExtract ==
  /\ pc = "extracting"
  /\ endpoint = "analyze"
  /\ Decide(AnalyzeExtraction(aiResponse))

\* /match-job after the provider's reply, up to submission.save()
MatchExtract ==
  /\ pc = "extracting"
  /\ endpoint = "match"
  /\ Decide(MatchExtraction(aiResponse))

\* the submission the handler saves
Submission ==
  IF endpoint = "analyze" THEN AnalyzeSubmission(req, data)
  ELSE MatchSubmission(req, data)

\* save() succeeds: the record exists, and the handler answers
SaveResolve ==
  /\ pc = "saving"
  /\ SubmissionValid(Submission)
  /\ records' = Append(records, Submission)
  /\ Respond(Success(data))
  /\ UNCHANGED <<AI_PROVIDER, endpoint, req, userPrompt, sent, providerError,
                 aiResponse, data, callAICalls, saveAttempts>>

\* a save() outside any try: its failure reaches the handler's catch block
SaveRejectUncaught ==
  /\ pc = "saving"
  /\ HandlerCatch([message |-> Str(<<"Submission validation failed">>)])
  /\ UNCHANGED <<AI_PROVIDER, endpoint, req, userPrompt, sent, providerError,
                 aiResponse, data, callAICalls, saveAttempts, records>>

\* save() fails (validation, or the database): the error is logged, and
\* the handler answers
SaveReject ==
  /\ pc = "saving"
  /\ Respond(Success(data))
  /\ UNCHANGED <<AI_PROVIDER, endpoint, req, userPrompt, sent, providerError,
                 aiResponse, data, callAICalls, saveAttempts, records>>

Next ==
  \/ AnalyzeRequest
  \/ MatchRequest
  \/ ProviderResolve
  \/ ProviderReject
  \/ InvalidProvider
  \/ AnalyzeExtract
  \/ MatchExtract
  \/ SaveResolve
  \/ SaveReject

Spec == Init /\ [][Next]_vars

\* the requests with every template, up to the provider call
RenderAnalyze == \E r \in RenderAnalyzeRequests : AnalyzeRequestOf(r)
RenderMatch == \E r \in RenderMatchRequests : MatchRequestOf(r)

RenderNext == RenderAnalyze \/ RenderMatch

RenderSpec == Init /\ [][RenderNext]_vars

----------------------------------------------------------------------------
(* What the claims speak of, stated without the handlers' own operators *)

\* the number of characters from the first to the last that is not white space
TrimmedLength(s) ==
  LET black == {i \in 1..Len(s) : s[i] \notin {" ", "\n", "\t"}}
  IN IF black = {} THEN 0 ELSE Max(black) - Min(black) + 1

\* a text field that is missing, or under 50 characters once trimmed
TooShort(v) == v.type # "string" \/ TrimmedLength(v.s) < 50

Present(v) == v.type = "string" /\ Len(v.s) > 0

\* the one response of a request that was answered
Answered == pc = "done" /\ Len(responses) = 1
Answer == responses[1]

ClientFault(message) ==
  /\ Answered
  /\ Answer.status = 400
  /\ Answer.json = [success |-> FALSE, error |-> message]

ServerFault(message) ==
  /\ Answered
  /\ Answer.status = 500
  /\ Answer.json = [success |-> FALSE, error |-> message]

----------------------------------------------------------------------------
\* C1: an Analyze or Match request whose resumeText is missing or has fewer
\* than 50 characters after trimming is answered with a client fault, and no
\* provider call is made for it.
C1_ShortResumeRejected ==
  (pc # "idle" /\ TooShort(req.body.resumeText)) =>
    /\ Answered
    /\ Answer.status = 400
    /\ Answer.json.success = FALSE
    /\ callAICalls = 0
    /\ sent = <<>>

\* a Match request, complete but for a resumeText that only trimming makes
\* short, was rejected
C1_Witness ==
  /\ pc = "done"
  /\ endpoint = "match"
  /\ req.body.resumeText = Str(ShortText("a"))
  /\ ~TooShort(req.body.jobDescription)
  /\ Present(req.body.prompt)
  /\ Answer.status = 400
  /\ callAICalls = 0

\* C2, as claimed: a Match request with a prompt and a jobDescription that is
\* omitted or under 50 trimmed characters is rejected with the same status and
\* the same error message whatever resumeText is.
C2_SameRejectionWhateverResume ==
  (pc # "idle" /\ endpoint = "match" /\ Present(req.body.prompt)
     /\ TooShort(req.body.jobDescription)) =>
    \A r \in ResumeTexts :
      Answered /\ Answer = MatchValidate([req.body EXCEPT !.resumeText = r])

MissingFields ==
  Str(<<"Missing required fields: resumeText, jobDescription, or prompt">>)

\* C2, amended: such a request is rejected with status 400 and success false
\* whatever resumeText is, before any provider call. The message is the same
\* whatever resumeText is only when jobDescription is omitted or empty (the
\* missing-fields message); with a jobDescription that is present but short
\* it is the missing-fields message for a missing resumeText, "Resume text is
\* too short" for a short one and "Job description is too short" for a valid
\* one.
C2_Amended ==
  (pc # "idle" /\ endpoint = "match" /\ Present(req.body.prompt)
     /\ TooShort(req.body.jobDescription)) =>
    /\ callAICalls = 0
    /\ ClientFault(
         IF ~Present(req.body.jobDescription) \/ ~Present(req.body.resumeText)
         THEN MissingFields
         ELSE IF TooShort(req.body.resumeText)
         THEN Str(<<"Resume text is too short">>)
         ELSE Str(<<"Job description is too short">>))

\* a short jobDescription with a valid resumeText was rejected for the
\* jobDescription
C2_Witness ==
  /\ pc = "done"
  /\ endpoint = "match"
  /\ Present(req.body.prompt)
  /\ req.body.jobDescription = Str(ShortText("b"))
  /\ ~TooShort(req.body.resumeText)
  /\ ClientFault(Str(<<"Job description is too short">>))

\* C3: once validation, the provider call and extraction have passed and
\* save() was called, the response is { success: true, data } with the
\* extracted data, whether or not the record was created.
C3_PersistenceNeverChangesResponse ==
  (pc = "done" /\ saveAttempts > 0) =>
    /\ Len(responses) = 1
    /\ Answer.status = 200
    /\ Answer.json = [success |-> TRUE, data |-> data]
    /\ data = JSONParse(RegexMatch(aiResponse.s).s).value

\* a submission with a fileType outside the enumeration was not recorded,
\* and the request succeeded
C3_Witness ==
  /\ pc = "done"
  /\ saveAttempts = 1
  /\ req.body.fileType = Str(<<"txt">>)
  /\ records = <<>>
  /\ Answer.status = 200
  /\ Answer.json.success = TRUE

----------------------------------------------------------------------------
(* The provider's reply, as the claims describe it *)

\* the handler has run its extraction on a reply
Extracted == pc \in {"saving", "done"} /\ aiResponse.type = "string"

FirstOpen == Min({i \in 1..Len(aiResponse.s) : aiResponse.s[i].t = "{"})
LastClose == Max({i \in 1..Len(aiResponse.s) : aiResponse.s[i].t = "}"})

\* the reply has a { and a later }
HasSpan ==
  /\ \E i \in 1..Len(aiResponse.s) : aiResponse.s[i].t = "{"
  /\ \E i \in 1..Len(aiResponse.s) : aiResponse.s[i].t = "}"
  /\ FirstOpen < LastClose

\* the members between the first { and the last }
SpanInner == SubSeq(aiResponse.s, FirstOpen + 1, LastClose - 1)

\* the span is a JSON object: members with commas between them
SpanIsObject ==
  /\ HasSpan
  /\ \/ SpanInner = <<>>
     \/ /\ Len(SpanInner) % 2 = 1
        /\ \A i \in 1..Len(SpanInner) :
             SpanInner[i].t = (IF i % 2 = 1 THEN "member" ELSE ",")

\* the object has the field
HasField(k) == \E i \in 1..Len(SpanInner) : SpanInner[i].t = "member" /\ SpanInner[i].k = k

\* the value of the field: that of its last member
FieldValue(k) ==
  SpanInner[Max({i \in 1..Len(SpanInner) :
                   SpanInner[i].t = "member" /\ SpanInner[i].k = k})].v

\* the object of the span, field by field
IsSpanObject(obj) ==
  /\ DOMAIN obj = {SpanInner[i].k : i \in {j \in 1..Len(SpanInner) : SpanInner[j].t = "member"}}
  /\ \A k \in DOMAIN obj : obj[k] = FieldValue(k)

Discriminator == IF endpoint = "analyze" THEN "overallScore" ELSE "matchPercentage"

\* C4, as claimed: on both endpoints, when the object parsed from the reply
\* has an `error` field, the request ends in a client fault carrying that
\* field's value; no result is returned and no record is created. (Stated
\* for an error field that carries a message; an empty one fails the claim on
\* /analyze-resume too, where it is taken for no error.)
C4_ErrorFieldIsClientFault ==
  (Extracted /\ SpanIsObject /\ HasField("error")
     /\ FieldValue("error") # Str(<<>>)) =>
    /\ ClientFault(FieldValue("error"))
    /\ saveAttempts = 0
    /\ records = <<>>

\* C5, as claimed: for a reply that parses to an object without an `error`
\* field, extraction succeeds if and only if the discriminating field is
\* present, whatever its value, the number 0 included.
C5_PresenceDecidesExtraction ==
  (Extracted /\ SpanIsObject /\ ~HasField("error")) =>
    (saveAttempts = 1 <=> HasField(Discriminator))

NoJsonFound == Str(<<"No valid JSON found in AI response">>)
MalformedJson == Str(<<"Unexpected token in JSON">>)

\* C8: on both endpoints a reply without a span from a { to a later }, or
\* whose span from the first { to the last } is not a JSON object, ends the
\* request in a server fault with success false, and nothing is saved; a
\* reply whose span is a JSON object is handled as that object, whatever the
\* prose around it: the data saved and returned are its fields, and with a
\* non-zero discriminating field and no error field the request succeeds.
C8_ExtractionFaults ==
  Extracted =>
    IF ~HasSpan THEN ServerFault(NoJsonFound) /\ saveAttempts = 0 /\ records = <<>>
    ELSE IF ~SpanIsObject
    THEN ServerFault(MalformedJson) /\ saveAttempts = 0 /\ records = <<>>
    ELSE /\ saveAttempts = 1 => IsSpanObject(data)
         /\ (pc = "done" /\ Answer.status = 200) => IsSpanObject(Answer.json.data)
         /\ (HasField(Discriminator) /\ FieldValue(Discriminator) # Num(0)
               /\ ~HasField("error")) =>
              /\ saveAttempts = 1
              /\ pc = "done" => (Answer.status = 200 /\ Answer.json.success = TRUE)

\* a JSON object inside prose was extracted and returned
C8_Witness ==
  /\ pc = "done"
  /\ aiResponse = Str(<<Prose, LBrace, Member("overallScore", Num(82)), RBrace, Prose>>)
  /\ Answer.status = 200
  /\ Answer.json.data = ("overallScore" :> Num(82))

----------------------------------------------------------------------------
\* the request passes the validation of its endpoint
PassesValidation ==
  /\ pc # "idle"
  /\ ~TooShort(req.body.resumeText)
  /\ Present(req.body.prompt)
  /\ endpoint = "match" => ~TooShort(req.body.jobDescription)

C9_State ==
  /\ saveAttempts <= 1
  /\ Len(records) <= saveAttempts
  /\ saveAttempts = 1 =>
       /\ PassesValidation
       /\ callAICalls = 1
       /\ aiResponse.type = "string"
       /\ SpanIsObject
       /\ IsSpanObject(data)
  /\ (pc = "done" /\ Answer.status # 200) => (saveAttempts = 0 /\ records = <<>>)
  /\ \A i \in 1..Len(records) :
       /\ records[i].analysisType =
            Str(<<IF endpoint = "analyze" THEN "analyzer" ELSE "matcher">>)
       /\ records[i].resumeTextLength = Num(Len(req.body.resumeText.s))
       /\ records[i].resumeText = req.body.resumeText

C9_Step ==
  /\ saveAttempts' # saveAttempts => (responses = <<>> /\ responses' = <<>>)
  /\ records' # records => (responses = <<>> /\ saveAttempts' = saveAttempts)
  /\ responses # <<>> => (records' = records /\ saveAttempts' = saveAttempts)

\* C9: for every request the creation of a submission record is attempted at
\* most once, only after validation, the provider call and extraction have
\* passed, and before the response is emitted; a request that ends in a fault
\* creates no record; a created record has the analysisType of its endpoint
\* and the length of resumeText as resumeTextLength.
C9_RecordOncePerSuccess == []C9_State /\ [][C9_Step]_vars

\* a Match request whose resumeText has white space around it was recorded
C9_Witness ==
  /\ pc = "done"
  /\ endpoint = "match"
  /\ req.body.resumeText = Str(PaddedText("a"))
  /\ Len(records) = 1
  /\ records[1].analysisType = Str(<<"matcher">>)
  /\ records[1].resumeTextLength = Num(52)
  /\ Answer.status = 200

MentionsApiKey(message) == \E i \in 1..Len(message.s) : message.s[i] = "API key"

\* C10: a request that passes validation calls the provider adapter exactly
\* once; when that call fails, the provider is not called again and the
\* request ends in one server fault carrying the failure's message, or the
\* invalid-credential message when the failure's message mentions an API key.
C10_OneCallNoRetry ==
  /\ callAICalls <= 1
  /\ Len(sent) <= callAICalls
  /\ PassesValidation <=> callAICalls = 1
  /\ callAICalls = 1 => Len(sent) = (IF AI_PROVIDER \in Providers THEN 1 ELSE 0)
  /\ providerError # Undefined =>
       /\ callAICalls = 1
       /\ aiResponse = Undefined
       /\ saveAttempts = 0
       /\ ServerFault(IF MentionsApiKey(providerError.message)
                      THEN Str(<<"Invalid API key. Please check your .env file.">>)
                      ELSE providerError.message)

\* the provider refused the API key, and the request ended in the
\* invalid-credential server fault after one call
C10_Witness ==
  /\ pc = "done"
  /\ providerError # Undefined
  /\ MentionsApiKey(providerError.message)
  /\ Len(sent) = 1
  /\ ServerFault(Str(<<"Invalid API key. Please check your .env file.">>))

----------------------------------------------------------------------------
(* Prompt rendering, as the claims describe it *)

Markers ==
  IF endpoint = "analyze" THEN {DOCUMENT_TEXT} ELSE {RESUME_TEXT, JOB_DESCRIPTION}

ValueOf(marker) ==
  IF marker = DOCUMENT_TEXT THEN req.body.resumeText.s
  ELSE IF marker = RESUME_TEXT THEN req.body.resumeText.s
  ELSE req.body.jobDescription.s

StartsAt(text, i, pattern) ==
  i + Len(pattern) - 1 <= Len(text) /\ SubSeq(text, i, i + Len(pattern) - 1) = pattern

\* one pass over the template from position i: every occurrence of a marker
\* gives way to its value, which is not looked into again
RECURSIVE Render(_, _)
Render(template, i) ==
  IF i > Len(template) THEN <<>>
  ELSE IF \E m \in Markers : StartsAt(template, i, m)
  THEN LET m == CHOOSE k \in Markers : StartsAt(template, i, k)
       IN ValueOf(m) \o Render(template, i + Len(m))
  ELSE <<template[i]>> \o Render(template, i + 1)

\* the text is plain: it holds no marker and no $
Plain(text) ==
  /\ \A m \in {DOCUMENT_TEXT, RESUME_TEXT, JOB_DESCRIPTION} :
       \A i \in 1..Len(text) : ~StartsAt(text, i, m)
  /\ \A i \in 1..Len(text) : text[i] # "$"

\* C6, as claimed: rendering replaces every occurrence of each known marker
\* of the template by its value, so that with plain values the prompt holds
\* no marker; a template without any of the markers is returned unchanged.
C6_EveryOccurrenceReplaced ==
  (pc = "calling" /\ \A m \in Markers : Plain(ValueOf(m))) =>
    /\ \A m \in Markers : \A i \in 1..Len(userPrompt) : ~StartsAt(userPrompt, i, m)
    /\ (\A m \in Markers : \A i \in 1..Len(req.body.prompt.s) :
          ~StartsAt(req.body.prompt.s, i, m)) => userPrompt = req.body.prompt.s

\* C7, as claimed: rendering is not recursive. In Match, with a template that
\* holds each marker once, the prompt is the template with resumeText at the
\* place of its {{RESUME_TEXT}} and jobDescription at the place of its own
\* {{JOB_DESCRIPTION}}, whatever resumeText holds. (Stated for texts without
\* a $, whose patterns replace() expands: those fail the claim as well.)
C7_NotRecursive ==
  (pc = "calling" /\ endpoint = "match"
     /\ \A k \in Markers : \A j \in 1..Len(ValueOf(k)) : ValueOf(k)[j] # "$"
     /\ \A m \in Markers :
          Cardinality({i \in 1..Len(req.body.prompt.s) :
                         StartsAt(req.body.prompt.s, i, m)}) = 1) =>
    userPrompt = Render(req.body.prompt.s, 1)

====
